---- MODULE Spec2Model ----
(***************************************************************************)
(* Model of .project/internal/archive/update_imports.py: a script that     *)
(* walks src_new, applies the regex substitutions of IMPORT_MAPPINGS to    *)
(* every *.ts file and writes back the files whose text changed.           *)
(*                                                                         *)
(* File content is a sequence of tokens.  A token is a run of characters   *)
(* that the patterns of IMPORT_MAPPINGS can only match as a whole: the     *)
(* keyword "from " (with its blank), a quote character, a module path, a   *)
(* line-ending character, other code ("x"), or a byte that is not valid    *)
(* UTF-8 ("<0xFF>").                                                       *)
(***************************************************************************)
EXTENDS Integers, Sequences, FiniteSets, TLC

VARIABLES
    rootExists,        \* src_new.exists()
    linesep,           \* os.linesep of the platform, as a token sequence
    disk,              \* file -> bytes on disk (the tree under src_new)
    orig,              \* history: disk as it was when main started
    pc,                \* position of main / update_file_imports
    pending,           \* matched files rglob has not yielded yet
    cur,               \* ts_file / file_path
    content,           \* local `content`
    original_content,  \* local `original_content`
    ruleIdx,           \* position of the for loop over IMPORT_MAPPINGS.items()
    result,            \* return value of update_file_imports
    updated_count,
    total_count,
    writes,            \* history: file -> number of open(file, 'w')
    attempts,          \* history: file -> number of update_file_imports calls
    failedFiles,       \* history: files whose "Error processing" line was printed
    reported,          \* what main printed last: "", "notfound", "summary"
    input,             \* (pure specifications) the text handed to the transform
    order,             \* (pure specifications) order in which the rules are applied
    out1,              \* (pure specifications) result of the first transform
    out2,              \* (pure specifications) result of the second transform
    stage              \* (pure specifications) how far the transforms have run

vars == <<rootExists, linesep, disk, orig, pc, pending, cur, content,
          original_content, ruleIdx, result, updated_count, total_count,
          writes, attempts, failedFiles, reported, input, order, out1, out2, stage>>

mainVars == <<rootExists, linesep, disk, orig, pc, pending, cur, content,
              original_content, ruleIdx, result, updated_count, total_count,
              writes, attempts, failedFiles, reported>>

pureVars == <<input, order, out1, out2, stage>>

----------------------------------------------------------------------------
(* The rule set *)

\* The character class ['\"] of every pattern.
Quotes == {"'", "\""}

\* IMPORT_MAPPINGS as written: (path inside the pattern, path inside the replacement),
\* in definition order (a dict keeps insertion order).
OldNew == <<
    <<"../types",                      "../../shared/types">>,
    <<"../../types",                   "../../shared/types">>,
    <<"./types",                       "../shared/types">>,
    <<"../types/errors",               "../../shared/errors">>,
    <<"../../types/errors",            "../../shared/errors">>,
    <<"../types/options",              "../../shared/types/options">>,
    <<"../../types/options",           "../../shared/types/options">>,
    <<"../utils/helpers",              "../../shared/utils/helpers">>,
    <<"../../utils/helpers",           "../../shared/utils/helpers">>,
    <<"../utils/validators",           "../../shared/utils/validators">>,
    <<"../../utils/validators",        "../../shared/utils/validators">>,
    <<"../cache/CacheManager",         "../../infrastructure/cache">>,
    <<"../cache/InMemoryCache",        "../../infrastructure/cache">>,
    <<"./CacheManager",                "./CacheManager">>,
    <<"../fetcher/Fetcher",            "../../infrastructure/http">>,
    <<"../fetcher/BootstrapDiscovery", "../../infrastructure/http">>,
    <<"../fetcher/SSRFProtection",     "../../infrastructure/security">>,
    <<"./Fetcher",                     "./Fetcher">>,
    <<"../normalizer/Normalizer",      "../../infrastructure/http">>,
    <<"../normalizer/PIIRedactor",     "../../infrastructure/security">>,
    <<"./QueryOrchestrator",           "../services">> >>

\* A table entry with a slip: the replacement of the two-level types import goes up
\* one level only, which is the text the one-level rule looks for.
RuleOf_OneLevelUp(pair) ==
    [pattern |-> <<{"from "}, Quotes, {pair[1]}, Quotes>>,
     repl    |-> <<"from ", "'",
                   IF pair[1] = "../../types" THEN "../types" ELSE pair[2], "'">>]

\* A table entry with a slip: the replacement of the sibling types import is left
\* as an old-style path that an earlier rule rewrites.
RuleOf_StaleTarget(pair) ==
    [pattern |-> <<{"from "}, Quotes, {pair[1]}, Quotes>>,
     repl    |-> <<"from ", "'",
                   IF pair[1] = "./types" THEN "../types" ELSE pair[2], "'">>]

\* One item of IMPORT_MAPPINGS: r"from ['\"]<old>['\"]" -> "from '<new>'".
\* pattern is a sequence of character classes, repl the literal replacement.
RuleOf(pair) ==
    [pattern |-> <<{"from "}, Quotes, {pair[1]}, Quotes>>,
     repl    |-> <<"from ", "'", pair[2], "'">>]

IMPORT_MAPPINGS == [i \in DOMAIN OldNew |-> RuleOf(OldNew[i])]

NumRules == Len(OldNew)

----------------------------------------------------------------------------
(* re.sub *)

\* Does the pattern match s at position i (a regex match is anchored nowhere, so
\* every position is tried)?
MatchAt(pattern, s, i) ==
    /\ i + Len(pattern) - 1 <= Len(s)
    /\ \A k \in 1..Len(pattern) : s[i + k - 1] \in pattern[k]

HasMatch(pattern, s) == \E i \in 1..Len(s) : MatchAt(pattern, s, i)

RECURSIVE Sub_FirstOnly(_, _)
\* re.sub with count=1: only the leftmost match is replaced.
Sub_FirstOnly(rule, s) ==
    IF s = <<>> THEN <<>>
    ELSE IF MatchAt(rule.pattern, s, 1)
         THEN rule.repl \o SubSeq(s, Len(rule.pattern) + 1, Len(s))
         ELSE <<Head(s)>> \o Sub_FirstOnly(rule, Tail(s))

RECURSIVE Sub(_, _)
\* re.sub(old_pattern, new_import, content): scanning from the left, every
\* non-overlapping match is replaced, the search resuming after the match.
Sub(rule, s) ==
    IF s = <<>> THEN <<>>
    ELSE IF MatchAt(rule.pattern, s, 1)
         THEN rule.repl \o Sub(rule, SubSeq(s, Len(rule.pattern) + 1, Len(s)))
         ELSE <<Head(s)>> \o Sub(rule, Tail(s))

RECURSIVE ApplyFrom(_, _, _)
\* The for loop from its k-th iteration on, the rules taken in the order ord.
ApplyFrom(ord, k, s) ==
    IF k > Len(ord) THEN s
    ELSE ApplyFrom(ord, k + 1, Sub(IMPORT_MAPPINGS[ord[k]], s))

\* The rules applied in the order ord (a sequence of rule numbers).
ApplyOrder(ord, s) == ApplyFrom(ord, 1, s)

DefinitionOrder == [i \in 1..NumRules |-> i]

\* The whole for loop of update_file_imports.
ApplyAll(s) == ApplyOrder(DefinitionOrder, s)

\* Does any rule of the rule set match s?
AnyRuleMatches(s) == \E i \in 1..NumRules : HasMatch(IMPORT_MAPPINGS[i].pattern, s)

\* Does s contain the token sequence lit?
Contains(s, lit) ==
    \E i \in 1..Len(s) :
        /\ i + Len(lit) - 1 <= Len(s)
        /\ SubSeq(s, i, i + Len(lit) - 1) = lit

----------------------------------------------------------------------------
(* Text I/O: open(file_path, mode, encoding='utf-8') *)

InvalidByte == "<0xFF>"

\* Can the bytes be decoded as UTF-8?
Decodable(bytes) == \A i \in 1..Len(bytes) : bytes[i] # InvalidByte

RECURSIVE Decode(_)
\* f.read() in text mode with newline=None: "\r\n" and a lone "\r" are read as "\n".
Decode(bytes) ==
    IF bytes = <<>> THEN <<>>
    ELSE IF Head(bytes) = "\r"
         THEN IF Len(bytes) >= 2 /\ bytes[2] = "\n"
              THEN <<"\n">> \o Decode(SubSeq(bytes, 3, Len(bytes)))
              ELSE <<"\n">> \o Decode(Tail(bytes))
         ELSE <<Head(bytes)>> \o Decode(Tail(bytes))

RECURSIVE Encode(_, _)
\* f.write() in text mode with newline=None: every "\n" is written as os.linesep.
Encode(text, sep) ==
    IF text = <<>> THEN <<>>
    ELSE IF Head(text) = "\n"
         THEN sep \o Encode(Tail(text), sep)
         ELSE <<Head(text)>> \o Encode(Tail(text), sep)

\* What a write that fails part-way can leave behind: the file was truncated by
\* open(file_path, 'w') and only some leading part of the bytes reached it.
PartialWrites(bytes) == {SubSeq(bytes, 1, k) : k \in 0..(Len(bytes) - 1)}

----------------------------------------------------------------------------
(* The tree under src_new *)

\* <<"from ", q1, path, q2>>: one import clause.
Clause(q1, path, q2) == <<"from ", q1, path, q2>>

\* Files are <<path without extension, extension>>.
AllFiles == {<<"core/client", "ts">>, <<"index", "ts">>, <<"notes", "md">>}

\* src_new.rglob('*.ts'): the files of the tree the walk selects.
Matched(tree) == {f \in DOMAIN tree : f[2] = "ts"}

\* Contents the *.ts files of the tree start with.
FileContents == {
    <<"x", "\n">>,
    <<"x", "\r", "\n">>,
    Clause("'", "../types", "'") \o <<"\n">>,
    <<"x", "\r", "\n">> \o Clause("\"", "./CacheManager", "\"") \o <<"\r", "\n">>,
    Clause("'", "./Fetcher", "'"),
    <<InvalidByte>> \o Clause("'", "../types", "'"),
    Clause("\"", "../../types/errors", "'") \o <<"\n">> \o Clause("'", "../fetcher/Fetcher", "'") }

\* The file the filter leaves out holds an old-style import too.
OtherContent == Clause("'", "../types", "'") \o <<"\n">>

Trees ==
    {t \in [AllFiles -> FileContents \cup {OtherContent}] :
        \A f \in AllFiles : f[2] # "ts" => t[f] = OtherContent}

NoFile == <<"", "">>

\* The variables of the pure specifications, at rest.
PureIdle ==
    /\ input = <<>>
    /\ order = DefinitionOrder
    /\ out1 = <<>>
    /\ out2 = <<>>
    /\ stage = "idle"

\* The process has just started: nothing of main has run.
Init ==
    /\ rootExists \in BOOLEAN
    /\ linesep \in {<<"\n">>, <<"\r", "\n">>}
    /\ disk \in (IF rootExists THEN Trees ELSE {<<>>})
    /\ orig = disk
    /\ pc = "start"
    /\ pending = {}
    /\ cur = NoFile
    /\ content = <<>>
    /\ original_content = <<>>
    /\ ruleIdx = 0
    /\ result = FALSE
    /\ updated_count = 0
    /\ total_count = 0
    /\ writes = [f \in DOMAIN disk |-> 0]
    /\ attempts = [f \in DOMAIN disk |-> 0]
    /\ failedFiles = {}
    /\ reported = ""
    /\ PureIdle

----------------------------------------------------------------------------
(* main *)

\* The existence test left out: the walk starts whatever the root is.
CheckRoot_NoTest ==
    /\ pc = "start"
    /\ updated_count' = 0
    /\ total_count' = 0
    /\ pending' = Matched(disk)
    /\ pc' = "walk"
    /\ UNCHANGED reported
    /\ UNCHANGED <<rootExists, linesep, disk, orig, cur, content, original_content,
                   ruleIdx, result, writes, attempts, failedFiles>>
    /\ UNCHANGED pureVars

\* main, lines 75-84: the existence test, then the counters and the walk.
CheckRoot ==
    /\ pc = "start"
    /\ IF ~rootExists
       THEN /\ reported' = "notfound"
            /\ pc' = "done"
            /\ UNCHANGED <<pending, updated_count, total_count>>
       ELSE /\ updated_count' = 0
            /\ total_count' = 0
            /\ pending' = Matched(disk)
            /\ pc' = "walk"
            /\ UNCHANGED reported
    /\ UNCHANGED <<rootExists, linesep, disk, orig, cur, content, original_content,
                   ruleIdx, result, writes, attempts, failedFiles>>
    /\ UNCHANGED pureVars

\* main, lines 87-89: rglob yields the next file (in no particular order),
\* total_count is incremented and update_file_imports is called.
NextFile ==
    /\ pc = "walk"
    /\ \E f \in pending :
        /\ pending' = pending \ {f}
        /\ cur' = f
        /\ attempts' = [attempts EXCEPT ![f] = @ + 1]
    /\ total_count' = total_count + 1
    /\ pc' = "read"
    /\ UNCHANGED <<rootExists, linesep, disk, orig, content, original_content, ruleIdx,
                   result, updated_count, writes, failedFiles, reported>>
    /\ UNCHANGED pureVars

\* A read that truncates: the file opened with a mode that empties it.
ReadFile_Truncating ==
    /\ pc = "read"
    /\ IF Decodable(disk[cur])
       THEN /\ content' = Decode(disk[cur])
            /\ original_content' = Decode(disk[cur])
            /\ ruleIdx' = 1
            /\ pc' = "rules"
       ELSE /\ pc' = "except"
            /\ UNCHANGED <<content, original_content, ruleIdx>>
    /\ disk' = [disk EXCEPT ![cur] = <<>>]
    /\ UNCHANGED <<rootExists, linesep, orig, pending, cur, result, updated_count,
                   total_count, writes, attempts, failedFiles, reported>>
    /\ UNCHANGED pureVars

\* update_file_imports, lines 53-56: the file is read and decoded; bytes that are
\* not UTF-8 raise UnicodeDecodeError.
ReadFile ==
    /\ pc = "read"
    /\ IF Decodable(disk[cur])
       THEN /\ content' = Decode(disk[cur])
            /\ original_content' = Decode(disk[cur])
            /\ ruleIdx' = 1
            /\ pc' = "rules"
       ELSE /\ pc' = "except"
            /\ UNCHANGED <<content, original_content, ruleIdx>>
    /\ UNCHANGED <<rootExists, linesep, disk, orig, pending, cur, result, updated_count,
                   total_count, writes, attempts, failedFiles, reported>>
    /\ UNCHANGED pureVars

\* update_file_imports, line 53: open(file_path, 'r') raises OSError.
ReadError ==
    /\ pc = "read"
    /\ pc' = "except"
    /\ UNCHANGED <<rootExists, linesep, disk, orig, pending, cur, content,
                   original_content, ruleIdx, result, updated_count, total_count,
                   writes, attempts, failedFiles, reported>>
    /\ UNCHANGED pureVars

\* The loop left after its first iteration.
ApplyRule_StopsEarly ==
    /\ pc = "rules"
    /\ content' = Sub(IMPORT_MAPPINGS[ruleIdx], content)
    /\ ruleIdx' = ruleIdx + 1
    /\ pc' = "compare"
    /\ UNCHANGED <<rootExists, linesep, disk, orig, pending, cur, original_content,
                   result, updated_count, total_count, writes, attempts, failedFiles,
                   reported>>
    /\ UNCHANGED pureVars

\* update_file_imports, lines 59-60: one iteration of the loop over the rules.
ApplyRule ==
    /\ pc = "rules"
    /\ content' = Sub(IMPORT_MAPPINGS[ruleIdx], content)
    /\ ruleIdx' = ruleIdx + 1
    /\ pc' = IF ruleIdx = NumRules THEN "compare" ELSE "rules"
    /\ UNCHANGED <<rootExists, linesep, disk, orig, pending, cur, original_content,
                   result, updated_count, total_count, writes, attempts, failedFiles,
                   reported>>
    /\ UNCHANGED pureVars

\* update_file_imports, line 60: re.sub raises (MemoryError is an Exception).
RuleError ==
    /\ pc = "rules"
    /\ pc' = "except"
    /\ UNCHANGED <<rootExists, linesep, disk, orig, pending, cur, content,
                   original_content, ruleIdx, result, updated_count, total_count,
                   writes, attempts, failedFiles, reported>>
    /\ UNCHANGED pureVars

\* The comparison dropped: every file is written back.
Compare_AlwaysWrite ==
    /\ pc = "compare"
    /\ pc' = "open_w"
    /\ UNCHANGED result
    /\ UNCHANGED <<rootExists, linesep, disk, orig, pending, cur, content,
                   original_content, ruleIdx, updated_count, total_count, writes,
                   attempts, failedFiles, reported>>
    /\ UNCHANGED pureVars

\* update_file_imports, lines 63 and 68: only a changed text is written;
\* an unchanged one returns False.
Compare ==
    /\ pc = "compare"
    /\ IF content # original_content
       THEN /\ pc' = "open_w"
            /\ UNCHANGED result
       ELSE /\ result' = FALSE
            /\ pc' = "ret"
    /\ UNCHANGED <<rootExists, linesep, disk, orig, pending, cur, content,
                   original_content, ruleIdx, updated_count, total_count, writes,
                   attempts, failedFiles, reported>>
    /\ UNCHANGED pureVars

\* update_file_imports, line 64: open(file_path, 'w') truncates the file.
OpenWrite ==
    /\ pc = "open_w"
    /\ disk' = [disk EXCEPT ![cur] = <<>>]
    /\ writes' = [writes EXCEPT ![cur] = @ + 1]
    /\ pc' = "write"
    /\ UNCHANGED <<rootExists, linesep, orig, pending, cur, content, original_content,
                   ruleIdx, result, updated_count, total_count, attempts, failedFiles,
                   reported>>
    /\ UNCHANGED pureVars

\* update_file_imports, line 64: open(file_path, 'w') raises OSError (a read-only
\* file); nothing was truncated.
OpenWriteError ==
    /\ pc = "open_w"
    /\ pc' = "except"
    /\ UNCHANGED <<rootExists, linesep, disk, orig, pending, cur, content,
                   original_content, ruleIdx, result, updated_count, total_count,
                   writes, attempts, failedFiles, reported>>
    /\ UNCHANGED pureVars

\* update_file_imports, lines 65-66: the text is written and the file closed.
WriteFile ==
    /\ pc = "write"
    /\ disk' = [disk EXCEPT ![cur] = Encode(content, linesep)]
    /\ result' = TRUE
    /\ pc' = "ret"
    /\ UNCHANGED <<rootExists, linesep, orig, pending, cur, content, original_content,
                   ruleIdx, updated_count, total_count, writes, attempts, failedFiles,
                   reported>>
    /\ UNCHANGED pureVars

\* update_file_imports, line 65: f.write or the flush on close raises OSError (a
\* full disk); the file, already truncated, keeps whatever part was flushed.
WriteError ==
    /\ pc = "write"
    /\ \E part \in PartialWrites(Encode(content, linesep)) :
        disk' = [disk EXCEPT ![cur] = part]
    /\ pc' = "except"
    /\ UNCHANGED <<rootExists, linesep, orig, pending, cur, content, original_content,
                   ruleIdx, result, updated_count, total_count, writes, attempts,
                   failedFiles, reported>>
    /\ UNCHANGED pureVars

\* The handler re-raises: the error leaves update_file_imports and ends main.
Except_Reraise ==
    /\ pc = "except"
    /\ failedFiles' = failedFiles \cup {cur}
    /\ pc' = "aborted"
    /\ UNCHANGED <<rootExists, linesep, disk, orig, pending, cur, content,
                   original_content, ruleIdx, result, updated_count, total_count,
                   writes, attempts, reported>>
    /\ UNCHANGED pureVars

\* update_file_imports, lines 69-71: any Exception is printed with the path and
\* the function returns False.
Except ==
    /\ pc = "except"
    /\ failedFiles' = failedFiles \cup {cur}
    /\ result' = FALSE
    /\ pc' = "ret"
    /\ UNCHANGED <<rootExists, linesep, disk, orig, pending, cur, content,
                   original_content, ruleIdx, updated_count, total_count, writes,
                   attempts, reported>>
    /\ UNCHANGED pureVars

\* main, lines 89-91: updated_count is incremented when the call returned True.
Return ==
    /\ pc = "ret"
    /\ updated_count' = IF result THEN updated_count + 1 ELSE updated_count
    /\ pc' = "walk"
    /\ UNCHANGED <<rootExists, linesep, disk, orig, pending, cur, content,
                   original_content, ruleIdx, result, total_count, writes, attempts,
                   failedFiles, reported>>
    /\ UNCHANGED pureVars

\* main, line 93: the walk is exhausted and the summary is printed.
Finish ==
    /\ pc = "walk"
    /\ pending = {}
    /\ reported' = "summary"
    /\ pc' = "done"
    /\ UNCHANGED <<rootExists, linesep, disk, orig, pending, cur, content,
                   original_content, ruleIdx, result, updated_count, total_count,
                   writes, attempts, failedFiles>>
    /\ UNCHANGED pureVars

Next ==
    \/ CheckRoot
    \/ NextFile
    \/ ReadFile
    \/ ReadError
    \/ ApplyRule
    \/ RuleError
    \/ Compare
    \/ OpenWrite
    \/ OpenWriteError
    \/ WriteFile
    \/ WriteError
    \/ Except
    \/ Return
    \/ Finish

Spec == Init /\ [][Next]_vars

\* The script runs sequentially: a step that can be taken is taken.
FairSpec == Init /\ [][Next]_vars /\ WF_vars(Next)

----------------------------------------------------------------------------
(* The transform alone: update_file_imports lines 56-63 as a function of the text *)

\* Longest input of the pure specification, in import clauses and code lines.
MaxImports == 3

\* Every path the rule set mentions, and one it does not.
Paths ==
    {OldNew[i][1] : i \in DOMAIN OldNew} \cup {OldNew[i][2] : i \in DOMAIN OldNew}
        \cup {"./other"}

\* What a text is made of: import clauses (named by their path) and other code.
Items == Paths \cup {"x"}

\* The items of the longer texts: the types imports at every depth, a replacement,
\* an import that its rule replaces by itself, one more old import, an import no
\* rule knows, and other code.
CoreItems ==
    {"../types", "../../types", "./types", "../../shared/types", "./CacheManager",
     "../fetcher/Fetcher", "./other", "x"}

RECURSIVE TextOf(_, _, _)
\* The text made of the given items, the clauses quoted with q1 ... q2.
TextOf(q1, q2, items) ==
    IF items = <<>> THEN <<>>
    ELSE (IF Head(items) = "x" THEN <<"x">> ELSE Clause(q1, Head(items), q2))
             \o TextOf(q1, q2, Tail(items))

\* The main program is not running.
MainIdle ==
    /\ rootExists = FALSE
    /\ linesep = <<"\n">>
    /\ disk = <<>>
    /\ orig = <<>>
    /\ pc = "idle"
    /\ pending = {}
    /\ cur = NoFile
    /\ content = <<>>
    /\ original_content = <<>>
    /\ ruleIdx = 0
    /\ result = FALSE
    /\ updated_count = 0
    /\ total_count = 0
    /\ writes = <<>>
    /\ attempts = <<>>
    /\ failedFiles = {}
    /\ reported = ""

PureInit ==
    /\ MainIdle
    /\ \E q1 \in Quotes, q2 \in Quotes :
         \/ \E item \in Items : input = TextOf(q1, q2, <<item>>)
         \/ \E n \in 0..MaxImports :
              \E items \in [1..n -> CoreItems] : input = TextOf(q1, q2, items)
    /\ order = DefinitionOrder
    /\ out1 = <<>>
    /\ out2 = <<>>
    /\ stage = "input"

\* Lines 56-63 on a text read from a file: all rules, then the comparison.
Transform ==
    /\ stage = "input"
    /\ out1' = ApplyAll(input)
    /\ stage' = "once"
    /\ UNCHANGED <<input, order, out2>>
    /\ UNCHANGED mainVars

\* Lines 56-63 again, on the text the first run wrote.
TransformAgain ==
    /\ stage = "once"
    /\ out2' = ApplyAll(out1)
    /\ stage' = "twice"
    /\ UNCHANGED <<input, order, out1>>
    /\ UNCHANGED mainVars

PureNext == Transform \/ TransformAgain

PureSpec == PureInit /\ [][PureNext]_vars

----------------------------------------------------------------------------
(* The transform with the rules taken in another order *)

\* order with the entries at i and j exchanged.
Swapped(ord, i, j) ==
    [k \in DOMAIN ord |-> IF k = i THEN ord[j] ELSE IF k = j THEN ord[i] ELSE ord[k]]

PermInit ==
    /\ MainIdle
    /\ \E n \in 0..1 : \E q1 \in Quotes, q2 \in Quotes :
         \E items \in [1..n -> Items] : input = TextOf(q1, q2, items)
    /\ order = DefinitionOrder
    /\ out1 = <<>>
    /\ out2 = <<>>
    /\ stage = "order"

\* The dict is iterated as written.
KeepOrder ==
    /\ stage = "order"
    /\ stage' = "ordered"
    /\ UNCHANGED <<input, order, out1, out2>>
    /\ UNCHANGED mainVars

\* Two rules change places.
Transpose ==
    /\ stage = "order"
    /\ \E i \in 1..NumRules, j \in 1..NumRules :
         /\ i < j
         /\ order' = Swapped(order, i, j)
    /\ stage' = "ordered"
    /\ UNCHANGED <<input, out1, out2>>
    /\ UNCHANGED mainVars

\* The rules are taken last to first.
Reverse ==
    /\ stage = "order"
    /\ order' = [k \in DOMAIN order |-> order[NumRules + 1 - k]]
    /\ stage' = "ordered"
    /\ UNCHANGED <<input, out1, out2>>
    /\ UNCHANGED mainVars

\* The rules are taken starting from the (r+1)-th, wrapping around.
Rotate ==
    /\ stage = "order"
    /\ \E r \in 1..(NumRules - 1) :
         order' = [k \in DOMAIN order |-> order[((k - 1 + r) % NumRules) + 1]]
    /\ stage' = "ordered"
    /\ UNCHANGED <<input, out1, out2>>
    /\ UNCHANGED mainVars

\* The for loop of lines 59-60, iterating in the chosen order.
ApplyInOrder ==
    /\ stage = "ordered"
    /\ out1' = ApplyOrder(order, input)
    /\ stage' = "once"
    /\ UNCHANGED <<input, order, out2>>
    /\ UNCHANGED mainVars

PermNext == KeepOrder \/ Transpose \/ Reverse \/ Rotate \/ ApplyInOrder

PermSpec == PermInit /\ [][PermNext]_vars

----------------------------------------------------------------------------
(* Properties of a run of main (specifications Spec and FairSpec) *)

\* The files the walk has yielded so far.
Visited == {f \in Matched(orig) : attempts[f] > 0}

\* update_file_imports has returned for f and main has counted it.
Processed(f) == f \in Visited /\ (pc \in {"walk", "done"} \/ f # cur)

\* C1: a matched file in which no rule matches is never written: it is never opened
\* for writing, its bytes on disk stay those it started with, and
\* update_file_imports returns False for it.
C1_NoMatchNoWrite ==
    \A f \in Matched(orig) :
        ~AnyRuleMatches(orig[f]) =>
            /\ writes[f] = 0
            /\ disk[f] = orig[f]
            /\ (pc = "ret" /\ cur = f => result = FALSE)

\* A file without any match (with CRLF line ends, on a platform that writes LF)
\* was read and transformed without error, and the run has ended.
C1_Witness ==
    /\ pc = "done"
    /\ linesep = <<"\n">>
    /\ \E f \in Matched(orig) :
         /\ orig[f] = <<"x", "\r", "\n">>
         /\ attempts[f] = 1
         /\ f \notin failedFiles

\* C2 as claimed: a processed file in which some rule matches, and whose processing
\* raised no error, was opened for writing exactly once and holds the text all rules
\* produce from the original text (line ends as the platform writes them).
C2_WrittenWhenRuleMatches ==
    \A f \in Matched(orig) :
        (Processed(f) /\ f \notin failedFiles /\ AnyRuleMatches(orig[f])) =>
            /\ writes[f] = 1
            /\ disk[f] = Encode(ApplyAll(Decode(orig[f])), linesep)

\* C2 amended: no file is opened for writing twice; a processed file whose text
\* after all rules differs from the text read, and whose processing raised no
\* error, was opened for writing exactly once and holds that text (line ends as
\* the platform writes them); a processed file whose text the rules leave as it
\* was, matches or not, was not written.
C2_WrittenOnceWhenChanged ==
    \A f \in Matched(orig) :
        /\ writes[f] <= 1
        /\ (Processed(f) /\ f \notin failedFiles) =>
              IF ApplyAll(Decode(orig[f])) # Decode(orig[f])
              THEN /\ writes[f] = 1
                   /\ disk[f] = Encode(ApplyAll(Decode(orig[f])), linesep)
              ELSE /\ writes[f] = 0
                   /\ disk[f] = orig[f]

\* The run has ended; one file needed two different rules and was written, and
\* another, whose only match is replaced by itself, was not.
C2_Witness ==
    /\ pc = "done"
    /\ \E f \in Matched(orig) :
         /\ f \notin failedFiles
         /\ writes[f] = 1
         /\ \A i \in 1..NumRules : Sub(IMPORT_MAPPINGS[i], Decode(orig[f])) # Decode(disk[f])
    /\ \E g \in Matched(orig) :
         /\ g \notin failedFiles
         /\ AnyRuleMatches(orig[g])
         /\ writes[g] = 0

\* C3 as claimed: a file whose processing failed with an error holds the bytes it
\* held before it was processed.
C3_FailedFileUnmodified ==
    \A f \in failedFiles : disk[f] = orig[f]

\* C4: no file is attempted twice, and once the walk has begun the run reaches
\* its end with every matched file attempted once and the summary printed,
\* whatever errors the files raised.
C4_WalkCompletes ==
    /\ [](\A f \in DOMAIN attempts : attempts[f] <= 1)
    /\ (pc = "walk") ~> (/\ pc = "done"
                         /\ reported = "summary"
                         /\ \A f \in Matched(orig) : attempts[f] = 1)

\* The run ended with the summary after both matched files raised an error.
C4_Witness ==
    /\ pc = "done"
    /\ reported = "summary"
    /\ failedFiles = Matched(orig)
    /\ Cardinality(failedFiles) = 2
    /\ \A f \in Matched(orig) : attempts[f] = 1

\* C5: when the root does not exist, main goes from its start straight to its end:
\* no file is visited, read or written, no counter is incremented, and what is
\* reported is the missing root, not a summary.
C5_NoRootNoWork ==
    ~rootExists =>
        /\ pc \in {"start", "done"}
        /\ disk = orig
        /\ \A f \in DOMAIN writes : writes[f] = 0 /\ attempts[f] = 0
        /\ total_count = 0
        /\ updated_count = 0
        /\ cur = NoFile
        /\ (pc = "done" => reported = "notfound")

\* main has returned after finding no root.
C5_Witness ==
    /\ ~rootExists
    /\ pc = "done"
    /\ reported = "notfound"

\* C7 as claimed: between two files and at the end of the run, total_count is the
\* number of matched files visited, updated_count is the number of visited files
\* whose content on disk changed, and updated_count <= total_count.
C7_CountsMatchChanges ==
    pc \in {"walk", "done"} =>
        /\ total_count = Cardinality(Visited)
        /\ updated_count = Cardinality({f \in Visited : disk[f] # orig[f]})
        /\ updated_count <= total_count

\* C9: while a file is being read and transformed its bytes on disk are the
\* original ones and it has not been opened for writing; when it is open for
\* writing, every rule has been applied and the new text is complete.
C9_NoWriteBeforeTransformDone ==
    /\ pc \in {"read", "rules", "compare"} =>
          /\ disk[cur] = orig[cur]
          /\ writes[cur] = 0
    /\ pc \in {"open_w", "write"} =>
          /\ ruleIdx = NumRules + 1
          /\ content = ApplyAll(original_content)

\* In the middle of the loop over the rules, with the text already changed.
C9_Witness ==
    /\ pc = "rules"
    /\ 1 < ruleIdx
    /\ ruleIdx <= NumRules
    /\ content # original_content

----------------------------------------------------------------------------
(* Properties of the transform (specifications PureSpec and PermSpec) *)

\* C6: the text the rules produce from the result of a first transform is that
\* result: a second run finds the text unchanged (and so does not write it).
C6_Idempotent ==
    stage = "twice" => out2 = out1

\* Two transforms have run; the first changed the text and left an import that a
\* rule still matches.
C6_Witness ==
    /\ stage = "twice"
    /\ out1 # input
    /\ AnyRuleMatches(out1)

\* The import of C8, before and after.
TypesImportOld == Clause("'", "../types", "'")

TypesImportNew == Clause("'", "../../shared/types", "'")

\* C8: a text that contains from '../types' contains, after one transform,
\* from '../../shared/types' and no from '../types' any more.
C8_TypesImportRewritten ==
    (stage \in {"once", "twice"} /\ Contains(input, TypesImportOld)) =>
        /\ Contains(out1, TypesImportNew)
        /\ ~Contains(out1, TypesImportOld)

\* A text with the import twice has been transformed.
C8_Witness ==
    /\ stage = "once"
    /\ input = TypesImportOld \o TypesImportOld

\* C10: with the rules taken in another order (two rules exchanged, the whole list
\* reversed or rotated) the loop produces the text it produces in definition
\* order; and no rule changes the replacement text of another rule.
C10_OrderIndependent ==
    /\ stage = "once" => out1 = ApplyAll(input)
    /\ stage = "order" =>
          \A i \in 1..NumRules, j \in 1..NumRules :
              i # j => Sub(IMPORT_MAPPINGS[j], IMPORT_MAPPINGS[i].repl) = IMPORT_MAPPINGS[i].repl

\* The loop has run in an order that moves a rule matching the input, and
\* changed the text.
C10_Witness ==
    /\ stage = "once"
    /\ out1 # input
    /\ \E k \in 1..NumRules :
         /\ order[k] # k
         /\ HasMatch(IMPORT_MAPPINGS[order[k]].pattern, input)

====
